---- MODULE Spec2Model ----
(***************************************************************************)
(* A model of analysis.py: the batch pipeline that loads two CSV tables,   *)
(* derives the route column, aggregates delays and cancellations by route  *)
(* and by airline, buckets the weather table by wind gust, renders three   *)
(* plots and writes a text report.                                         *)
(*                                                                         *)
(* Tables are sequences of records.  A cell that pandas holds as NaN is    *)
(* the record NA, a present number n is Val(n); a missing grouping key is  *)
(* the string NaNKey.  A mean is kept as the pair (sum, cnt) of the values *)
(* it averages, so that sum/cnt is exact; means are compared by cross      *)
(* multiplication and formatted by Fmt1.                                   *)
(***************************************************************************)
EXTENDS Integers, Sequences, FiniteSets, TLC

\* ------------------------------------------------------------------ bounds

\* rows of flights2022.csv when the rows are drawn freely
MaxFlights == 2
\* rows of flights_weather2022.csv when the rows are drawn freely
MaxWeather == 2
\* rows (one per route and airline) of the wide flight tables
MaxKeys == 10

\* --------------------------------------------------------- program constants

TOP_N == 9

RESULTS_DIR == "results"

PLOT_DIR == RESULTS_DIR \o "/plots"

\* the two code points of the report that are not ASCII
BULLET == "<U+2022>"

GE_SIGN == "<U+2265>"

\* ------------------------------------------------------------------- state

VARIABLES
  csv_flights,         \* the rows of flights2022.csv
  csv_weather,         \* the rows of flights_weather2022.csv
  numpy_kernel,        \* the argsort kernel of the installed numpy
  files,               \* the output files under results/: path -> content
  run,                 \* "first" or "second": which run of the program this is
  first,               \* what the first run produced, kept for the second
  pc,                  \* the stage main() is about to run, "done" or "failed"
  error,               \* the exception main() re-raised, "" when none
  flights_df, flights_weather_df,
  routes_stats, airlines_stats, wind_data, wind_summary,
  stdout,              \* what the run printed, in order
  log                  \* the messages the run logged, in order

vars == <<csv_flights, csv_weather, numpy_kernel, files, run, first, pc, error,
          flights_df, flights_weather_df, routes_stats, airlines_stats,
          wind_data, wind_summary, stdout, log>>

inputs == <<csv_flights, csv_weather, numpy_kernel>>

locals == <<flights_df, flights_weather_df, routes_stats, airlines_stats, wind_data, wind_summary>>

\* ------------------------------------------------------------------- cells

NA == [na |-> TRUE, v |-> 0]

Val(n) == [na |-> FALSE, v |-> n]

NaNKey == "nan"

NaN == [nan |-> TRUE, sum |-> 0, cnt |-> 0]

Min(a, b) == IF a <= b THEN a ELSE b

Abs(n) == IF n < 0 THEN -n ELSE n

\* the one element of a one-element set; Only({e(v) : v \in {x}}) is e(x) with
\* x worked out once
Only(S) == CHOOSE x \in S : TRUE

Reverse(s) == [i \in 1..Len(s) |-> s[Len(s) + 1 - i]]

\* str.__add__ on the origin and dest columns: NaN when either is missing
StrCat3(a, sep, b) == IF a = NaNKey \/ b = NaNKey THEN NaNKey ELSE a \o sep \o b

\* ---------------------------------------------------- the order of strings
\* Python compares strings by code point.  The strings the model draws are
\* listed here in that order, and a key is compared by its place in the list.

Origins == <<"EWR", "JFK", "LGA">>

Dests == <<"ATL", "BOS", "LAX", "SFO">>

Airlines == <<"AA", "AS", "B6", "DL", "F9", "G4", "HA", "NK", "OO", "UA", "WN", "YX">>

RouteOf(n) == StrCat3(Origins[((n - 1) \div Len(Dests)) + 1], "-", Dests[((n - 1) % Len(Dests)) + 1])

SortedRoutes == [n \in 1..(Len(Origins) * Len(Dests)) |-> RouteOf(n)]

WindGroups == <<"< 10mph", ">= 10mph">>

SortedKeys(col) ==
  CASE col = "route" -> SortedRoutes
    [] col = "airline" -> Airlines
    [] col = "origin" -> Origins
    [] col = "wind_group" -> WindGroups

\* --------------------------------------------------------------- aggregates

\* Series.count: the number of present values
RECURSIVE CountOf(_)
CountOf(cells) ==
  IF cells = <<>> THEN 0
  ELSE (IF Head(cells).na THEN 0 ELSE 1) + CountOf(Tail(cells))

\* Series.sum with skipna: the sum of the present values
RECURSIVE SumOf(_)
SumOf(cells) ==
  IF cells = <<>> THEN 0
  ELSE (IF Head(cells).na THEN 0 ELSE Head(cells).v) + SumOf(Tail(cells))

\* the mean with a missing value counted as a zero
MeanOfNaAsZero(cells) ==
  IF cells = <<>> THEN NaN
  ELSE [nan |-> FALSE, sum |-> SumOf(cells), cnt |-> Len(cells)]

\* Series.mean with skipna: the sum of the present values over their number,
\* NaN when there is none
MeanOf(cells) ==
  IF CountOf(cells) = 0 THEN NaN
  ELSE [nan |-> FALSE, sum |-> SumOf(cells), cnt |-> CountOf(cells)]

\* the present values counted in place of the missing ones
RECURSIVE NotnaSum(_)
NotnaSum(cells) ==
  IF cells = <<>> THEN 0
  ELSE (IF Head(cells).na THEN 0 ELSE 1) + NotnaSum(Tail(cells))

\* lambda x: x.isna().sum()
RECURSIVE IsnaSum(_)
IsnaSum(cells) ==
  IF cells = <<>> THEN 0
  ELSE (IF Head(cells).na THEN 1 ELSE 0) + IsnaSum(Tail(cells))

Column(rows, col) == [i \in 1..Len(rows) |-> rows[i][col]]

\* the rows of one group, in table order
GroupRows(rows, col, k) == SelectSeq(rows, LAMBDA r : r[col] = k)

\* groupby(col) with sort=True, dropna=True: the distinct present keys, sorted
GroupKeys(rows, col) ==
  SelectSeq(SortedKeys(col), LAMBDA k : \E i \in 1..Len(rows) : rows[i][col] = k)

\* groupby(col).agg(mean_dep_delay=("dep_delay", "mean"),
\*                  total_cancellations=("dep_time", isna-sum)).reset_index()
DelaysCancels(rows, col) ==
  Only({[g \in 1..Len(keys) |->
          [key |-> keys[g],
           mean_dep_delay |-> MeanOf(Column(GroupRows(rows, col, keys[g]), "dep_delay")),
           total_cancellations |-> IsnaSum(Column(GroupRows(rows, col, keys[g]), "dep_time"))]]
        : keys \in {GroupKeys(rows, col)}})

\* ------------------------------------------------------------------ ranking

\* a value of the column sorted on, as (sum, cnt); a count n is n/1
MetricOf(row, by) ==
  IF by = "total_cancellations"
  THEN [nan |-> FALSE, sum |-> row.total_cancellations, cnt |-> 1]
  ELSE row.mean_dep_delay

\* a < b and a <= b of two present values
Lt(a, b) == a.sum * b.cnt < b.sum * a.cnt

Le(a, b) == a.sum * b.cnt <= b.sum * a.cnt

\* The quicksort kernels numpy's argsort may run.  pandas documents the
\* default kind, quicksort, as not stable: what becomes of equal values is
\* the kernel's business.  A kernel is a function of its input; the two here
\* are the one that keeps equal values in input order (the insertion sort
\* numpy's introsort runs on a short array) and one that does not.
NumpyKernels == {"ties_kept", "ties_reversed"}

\* whether xs[j] comes before xs[i] in ascending order under the kernel
Before(xs, j, i, kernel) ==
  \/ Lt(xs[j], xs[i])
  \/ /\ Le(xs[j], xs[i]) /\ Le(xs[i], xs[j])
     /\ IF kernel = "ties_kept" THEN j < i ELSE j > i

\* ndarray.argsort(kind="quicksort"): the places of xs in ascending order
ArgSort(xs, kernel) ==
  [r \in 1..Len(xs) |->
     CHOOSE i \in 1..Len(xs) :
       Cardinality({j \in 1..Len(xs) : Before(xs, j, i, kernel)}) = r - 1]

\* the places of the present values, last first, and of the missing ones
NonNanIdx(items) == Reverse(SelectSeq([i \in 1..Len(items) |-> i], LAMBDA i : ~items[i].nan))

NanIdx(items) == SelectSeq([i \in 1..Len(items) |-> i], LAMBDA i : items[i].nan)

\* the present values in the order argsort left them, reversed
SortedIdx(items, non_nan_idx, kernel) ==
  Only({Reverse([j \in 1..Len(order) |-> non_nan_idx[order[j]]])
        : order \in {ArgSort([j \in 1..Len(non_nan_idx) |-> items[non_nan_idx[j]]], kernel)}})

\* the places of the rows whose sort value is missing, first
NargsortNaFirst(items, kernel) ==
  NanIdx(items) \o Only({SortedIdx(items, idx, kernel) : idx \in {NonNanIdx(items)}})

\* pandas nargsort(items, kind, ascending=False, na_position="last"): the
\* present values are reversed, argsorted ascending and reversed again, and
\* the places of the missing values are appended in table order
Nargsort(items, kernel) ==
  Only({SortedIdx(items, idx, kernel) : idx \in {NonNanIdx(items)}}) \o NanIdx(items)

\* the rows of the table taken in the order of the indexer
Take(table, indexer) == [j \in 1..Len(table) |-> table[indexer[j]]]

\* a sort whose way with equal values changes from one run to the next
SortValuesRunDependent(table, by, kernel) ==
  Only({Take(table, indexer)
        : indexer \in {Nargsort([i \in 1..Len(table) |-> MetricOf(table[i], by)],
                                IF run = "first" THEN "ties_kept" ELSE "ties_reversed")}})

\* DataFrame.sort_values(by, ascending=False)
SortValues(table, by, kernel) ==
  Only({Take(table, indexer)
        : indexer \in {Nargsort([i \in 1..Len(table) |-> MetricOf(table[i], by)], kernel)}})

\* DataFrame.head(n)
Head_n(table, n) == SubSeq(table, 1, Min(n, Len(table)))

\* one row more than TOP_N
TopByOneMore(table, by, kernel) == Head_n(SortValues(table, by, kernel), TOP_N + 1)

\* table.sort_values(by, ascending=False).head(TOP_N)
TopBy(table, by, kernel) == Head_n(SortValues(table, by, kernel), TOP_N)

\* -------------------------------------------------------------- formatting

\* format(x, ".1f"): "nan", or the nearest tenth with one decimal.  A value
\* halfway between two tenths goes to the even one; such a value needs a
\* group of four values or more.
Fmt1(m) ==
  IF m.nan THEN "nan"
  ELSE LET a == Abs(m.sum) * 10
           q == a \div m.cnt
           r == a % m.cnt
           t == IF 2 * r > m.cnt \/ (2 * r = m.cnt /\ q % 2 = 1) THEN q + 1 ELSE q
       IN (IF m.sum < 0 THEN "-" ELSE "") \o ToString(t \div 10) \o "." \o ToString(t % 10)

\* "\n".join(lines)
RECURSIVE Join(_)
Join(lines) ==
  IF lines = <<>> THEN ""
  ELSE IF Len(lines) = 1 THEN lines[1]
  ELSE lines[1] \o "\n" \o Join(Tail(lines))

\* "=" * n
RECURSIVE Times(_, _)
Times(ch, n) == IF n = 0 THEN "" ELSE ch \o Times(ch, n - 1)

\* the stages of main(), in the order it calls them
Stages == <<"load", "preprocess", "routes", "airlines", "wind",
            "plot_route_cancellations", "plot_airline_delays", "plot_wind_impact", "report">>

\* the message a stage logs when it is entered
StageBanner ==
  [load |-> "Loading flight data...",
   preprocess |-> "Preprocessing flight data...",
   routes |-> "Analyzing routes...",
   airlines |-> "Analyzing airlines...",
   wind |-> "Analyzing wind impact on delays...",
   plot_route_cancellations |-> "Creating route cancellations plot...",
   plot_airline_delays |-> "Creating airline delays plot...",
   plot_wind_impact |-> "Creating wind impact plot...",
   report |-> "Generating summary report..."]

SUMMARY_PATH == RESULTS_DIR \o "/analysis_summary.txt"

ROUTE_PLOT_PATH == PLOT_DIR \o "/route_cancellations.png"

AIRLINE_PLOT_PATH == PLOT_DIR \o "/airline_delays.png"

WIND_PLOT_PATH == PLOT_DIR \o "/wind_impact.png"

OutputPaths == {SUMMARY_PATH, ROUTE_PLOT_PATH, AIRLINE_PLOT_PATH, WIND_PLOT_PATH}

\* a file that is not there, a text file, an image of bars
Absent == [kind |-> "absent"]

TextFile(t) == [kind |-> "text", text |-> t]

Image(bars) == [kind |-> "png", bars |-> bars]

Nothing == [pc |-> "none"]

\* logger.info(m) and logger.error(m): the lines they add to the log
Info(m) == [level |-> "INFO", message |-> m]

Err(m) == [level |-> "ERROR", message |-> m]

Infos(ms) == [i \in 1..Len(ms) |-> Info(ms[i])]

\* the report an earlier run of the program left on disk
STALE_REPORT == "report of an earlier run"

\* an except clause that logs the failure and lets main() return
RaiseSwallowed(exc, message, logged) ==
  /\ pc' = "done"
  /\ error' = ""
  /\ log' = log \o logged \o <<Err("Analysis failed: " \o message)>>

\* an exception raised in a stage, after the stage logged `logged`: main()'s
\* except clause logs the failure and raises it again
Raise(exc, message, logged) ==
  /\ pc' = "failed"
  /\ error' = exc
  /\ log' = log \o logged \o <<Err("Analysis failed: " \o message)>>

\* ------------------------------------------------------------------ stages

\* load_data(), entered from main(): both files are read, or the failure of
\* read_csv is logged and raised
load_data ==
  /\ pc = "load"
  /\ \E found \in BOOLEAN :
       IF found
       THEN /\ flights_df' = csv_flights
            /\ flights_weather_df' = csv_weather
            /\ log' = log \o Infos(<<"Starting flight analysis...", StageBanner.load,
                               "Loaded " \o ToString(Len(csv_flights)) \o " flight records",
                               "Loaded " \o ToString(Len(csv_weather)) \o " weather records">>)
            /\ pc' = "preprocess"
            /\ UNCHANGED error
       ELSE /\ Raise("FileNotFoundError", "flights2022.csv",
                     <<Info("Starting flight analysis..."), Info(StageBanner.load),
                       Err("Data file not found: flights2022.csv")>>)
            /\ UNCHANGED <<flights_df, flights_weather_df>>
  /\ UNCHANGED <<inputs, files, run, first, routes_stats, airlines_stats,
                 wind_data, wind_summary, stdout>>

\* flights_df["route"] = flights_df["origin"] + "-" + flights_df["dest"]
WithRoute(rows) ==
  [i \in 1..Len(rows) |-> rows[i] @@ [route |-> StrCat3(rows[i].origin, "-", rows[i].dest)]]

\* preprocess_data(flights_df)
preprocess_data ==
  /\ pc = "preprocess"
  /\ flights_df' = WithRoute(flights_df)
  /\ log' = log \o Infos(<<StageBanner.preprocess,
                     "Created " \o ToString(Len(GroupKeys(WithRoute(flights_df), "route")))
                       \o " unique routes">>)
  /\ pc' = "routes"
  /\ UNCHANGED <<inputs, files, run, first, error, flights_weather_df, routes_stats,
                 airlines_stats, wind_data, wind_summary, stdout>>

\* the tuple analyze_routes and analyze_airlines return
StatsOf(rows, col, kernel) ==
  Only({<<delays_cancels,
          TopBy(delays_cancels, "mean_dep_delay", kernel),
          TopBy(delays_cancels, "total_cancellations", kernel)>>
        : delays_cancels \in {DelaysCancels(rows, col)}})

\* analyze_routes(flights_df); iloc[0] of an empty table raises IndexError
analyze_routes ==
  /\ pc = "routes"
  /\ \E stats \in {StatsOf(flights_df, "route", numpy_kernel)} :
        IF stats[1] = <<>>
        THEN /\ Raise("IndexError", "single positional indexer is out-of-bounds",
                      <<Info(StageBanner.routes)>>)
             /\ UNCHANGED routes_stats
        ELSE /\ routes_stats' = stats
             /\ log' = log \o Infos(<<StageBanner.routes,
                                "Top route by delays: " \o stats[2][1].key \o " ("
                                  \o Fmt1(stats[2][1].mean_dep_delay) \o " min)",
                                "Top route by cancellations: " \o stats[3][1].key \o " ("
                                  \o ToString(stats[3][1].total_cancellations) \o " cancellations)">>)
             /\ pc' = "airlines"
             /\ UNCHANGED error
  /\ UNCHANGED <<inputs, files, run, first, flights_df, flights_weather_df,
                 airlines_stats, wind_data, wind_summary, stdout>>

\* analyze_airlines(flights_df)
analyze_airlines ==
  /\ pc = "airlines"
  /\ \E stats \in {StatsOf(flights_df, "airline", numpy_kernel)} :
        IF stats[1] = <<>>
        THEN /\ Raise("IndexError", "single positional indexer is out-of-bounds",
                      <<Info(StageBanner.airlines)>>)
             /\ UNCHANGED airlines_stats
        ELSE /\ airlines_stats' = stats
             /\ log' = log \o Infos(<<StageBanner.airlines,
                                "Top airline by delays: " \o stats[2][1].key \o " ("
                                  \o Fmt1(stats[2][1].mean_dep_delay) \o " min)">>)
             /\ pc' = "wind"
             /\ UNCHANGED error
  /\ UNCHANGED <<inputs, files, run, first, flights_df, flights_weather_df,
                 routes_stats, wind_data, wind_summary, stdout>>

\* x >= 10 of a cell: a comparison with NaN is False
GeTen(x) == IF x.na THEN FALSE ELSE x.v >= 10

\* the threshold taken as exclusive
WindGroupOfStrict(x) == IF (IF x.na THEN FALSE ELSE x.v > 10) THEN ">= 10mph" ELSE "< 10mph"

\* a missing gust taken for a high one
WindGroupOfNaHigh(x) == IF x.na \/ x.v >= 10 THEN ">= 10mph" ELSE "< 10mph"

\* lambda x: ">= 10mph" if x >= 10 else "< 10mph"
WindGroupOf(x) == IF GeTen(x) THEN ">= 10mph" ELSE "< 10mph"

\* flights_weather_df["wind_group"] = flights_weather_df["wind_gust"].apply(...)
WithWindGroup(rows) ==
  [i \in 1..Len(rows) |-> rows[i] @@ [wind_group |-> WindGroupOf(rows[i].wind_gust)]]

\* groupby("wind_group")["dep_delay"].agg(["mean", "count"])
WindSummaryOf(rows) ==
  LET keys == GroupKeys(rows, "wind_group")
  IN [g \in 1..Len(keys) |->
        [key |-> keys[g],
         mean |-> MeanOf(Column(GroupRows(rows, "wind_group", keys[g]), "dep_delay")),
         count |-> CountOf(Column(GroupRows(rows, "wind_group", keys[g]), "dep_delay"))]]

\* the (wind_group, origin) pairs in sorted order
SortedPairs ==
  [n \in 1..(Len(WindGroups) * Len(Origins)) |->
     <<WindGroups[((n - 1) \div Len(Origins)) + 1], Origins[((n - 1) % Len(Origins)) + 1]>>]

\* groupby(["wind_group", "origin"]).agg(mean_dep_delay=("dep_delay", "mean"))
WindGroupedOf(rows) ==
  LET keys == SelectSeq(SortedPairs, LAMBDA k :
                 \E i \in 1..Len(rows) : rows[i].wind_group = k[1] /\ rows[i].origin = k[2])
  IN [g \in 1..Len(keys) |->
        [wind_group |-> keys[g][1], origin |-> keys[g][2],
         mean_dep_delay |-> MeanOf(Column(SelectSeq(rows, LAMBDA r :
                               r.wind_group = keys[g][1] /\ r.origin = keys[g][2]), "dep_delay"))]]

\* print(x): the text and the newline print ends with
Printed(t) == [text |-> t \o "\n"]

\* print(df): the table as pandas lays it out
PrintedFrame(df) == [frame |-> df]

\* analyze_wind_impact(flights_weather_df)
analyze_wind_impact ==
  /\ pc = "wind"
  /\ flights_weather_df' = WithWindGroup(flights_weather_df)
  /\ wind_data' = WindGroupedOf(flights_weather_df')
  /\ wind_summary' = WindSummaryOf(flights_weather_df')
  /\ stdout' = stdout \o <<Printed("\n" \o Times("=", 50)), Printed("WIND IMPACT ANALYSIS"),
                           Printed(Times("=", 50)), Printed("\nSummary by Wind Conditions:"),
                           PrintedFrame(wind_summary'),
                           Printed("\nDetailed by Origin Airport:"),
                           PrintedFrame(wind_data')>>
  /\ log' = log \o Infos(<<StageBanner.wind>>)
  /\ pc' = "plot_route_cancellations"
  /\ UNCHANGED <<inputs, files, run, first, error, flights_df, routes_stats, airlines_stats>>

\* create_route_cancellations_plot: one bar per row, labelled f'{int(height)}'
RouteCancellationsBars(top) ==
  [i \in 1..Len(top) |->
     [label |-> top[i].key, height |-> top[i].total_cancellations,
      text |-> ToString(top[i].total_cancellations)]]

\* create_airline_delays_plot: one bar per row, labelled f'{height:.1f}'
AirlineDelaysBars(top) ==
  [i \in 1..Len(top) |->
     [label |-> top[i].key, height |-> top[i].mean_dep_delay,
      text |-> Fmt1(top[i].mean_dep_delay)]]

\* create_wind_impact_plot: one bar per group, labelled f'{delay:.1f} min\n(n={count})'
WindImpactBars(summary) ==
  [i \in 1..Len(summary) |->
     [label |-> summary[i].key, height |-> summary[i].mean,
      text |-> Fmt1(summary[i].mean) \o " min\n(n=" \o ToString(summary[i].count) \o ")"]]

\* a plot stage: the figure is drawn and saved under PLOT_DIR
Plot(stage, path, bars, next) ==
  /\ pc = stage
  /\ files' = [files EXCEPT ![path] = Image(bars)]
  /\ log' = log \o Infos(<<StageBanner[stage]>>)
  /\ pc' = next
  /\ UNCHANGED <<inputs, run, first, error, locals, stdout>>

create_route_cancellations_plot ==
  Plot("plot_route_cancellations", ROUTE_PLOT_PATH,
       RouteCancellationsBars(routes_stats[3]), "plot_airline_delays")

create_airline_delays_plot ==
  Plot("plot_airline_delays", AIRLINE_PLOT_PATH,
       AirlineDelaysBars(airlines_stats[2]), "plot_wind_impact")

create_wind_impact_plot ==
  Plot("plot_wind_impact", WIND_PLOT_PATH, WindImpactBars(wind_summary), "report")

\* a lookup that finds every label
HasKeyAlways(summary, key) == TRUE

\* wind_summary.loc[key, ...]: whether the label is in the index
HasKey(summary, key) == \E i \in 1..Len(summary) : summary[i].key = key

\* wind_summary.loc[key, 'mean']; NaN stands in for the row a failed lookup
\* never returns
LocMean(summary, key) ==
  IF \E i \in 1..Len(summary) : summary[i].key = key
  THEN (CHOOSE r \in {summary[i] : i \in 1..Len(summary)} : r.key = key).mean
  ELSE NaN

\* the lines of the report, joined by newlines
ReportText(routes, airlines, summary) ==
  Join(<<Times("=", 60),
         "FLIGHT DELAY AND CANCELLATION ANALYSIS REPORT",
         Times("=", 60),
         "",
         "TOP FINDINGS:",
         Times("-", 20),
         BULLET \o " Worst route for delays: " \o routes[2][1].key \o " ("
           \o Fmt1(routes[2][1].mean_dep_delay) \o " min)",
         BULLET \o " Route with most cancellations: " \o routes[3][1].key \o " ("
           \o ToString(routes[3][1].total_cancellations) \o " flights)",
         BULLET \o " Airline with highest delays: " \o airlines[2][1].key \o " ("
           \o Fmt1(airlines[2][1].mean_dep_delay) \o " min)",
         BULLET \o " Wind impact: High winds (" \o GE_SIGN \o "10mph) cause "
           \o Fmt1(LocMean(summary, ">= 10mph")) \o " min delays",
         "                Low winds (<10mph) cause "
           \o Fmt1(LocMean(summary, "< 10mph")) \o " min delays">>)

\* the file opened with 'a': the text lands after what the file held
WrittenAppended(text) ==
  IF files[SUMMARY_PATH].kind = "text" THEN TextFile(files[SUMMARY_PATH].text \o text)
  ELSE TextFile(text)

\* f.write(report_text) on a file opened with 'w'
Written(text) == TextFile(text)

\* generate_summary_report(routes_stats, airlines_stats, wind_summary) and the
\* end of main(): the lines are built in order, so the first lookup that
\* fails raises before anything is printed or written
generate_summary_report ==
  /\ pc = "report"
  /\ IF routes_stats[2] = <<>> \/ routes_stats[3] = <<>> \/ airlines_stats[2] = <<>>
     THEN /\ Raise("IndexError", "single positional indexer is out-of-bounds",
                   <<Info(StageBanner.report)>>)
          /\ UNCHANGED <<files, stdout>>
     ELSE IF ~HasKey(wind_summary, ">= 10mph")
     THEN /\ Raise("KeyError", "'>= 10mph'", <<Info(StageBanner.report)>>)
          /\ UNCHANGED <<files, stdout>>
     ELSE IF ~HasKey(wind_summary, "< 10mph")
     THEN /\ Raise("KeyError", "'< 10mph'", <<Info(StageBanner.report)>>)
          /\ UNCHANGED <<files, stdout>>
     ELSE LET report_text == ReportText(routes_stats, airlines_stats, wind_summary)
          IN /\ stdout' = Append(stdout, Printed("\n" \o report_text))
             /\ files' = [files EXCEPT ![SUMMARY_PATH] = Written(report_text)]
             /\ log' = log \o Infos(<<StageBanner.report,
                                "Summary report saved to " \o SUMMARY_PATH,
                                "Analysis completed successfully!",
                                "Results saved to: " \o RESULTS_DIR>>)
             /\ pc' = "done"
             /\ UNCHANGED error
  /\ UNCHANGED <<inputs, run, first, locals>>

\* what a run leaves behind for the comparison with the next one
Outcome ==
  [pc |-> pc, error |-> error, routes_stats |-> routes_stats,
   airlines_stats |-> airlines_stats, wind_data |-> wind_data,
   wind_summary |-> wind_summary, stdout |-> stdout, files |-> files]

\* the program is started again on the same two input files; the output
\* files of the first run are still on disk
second_run ==
  /\ run = "first"
  /\ pc \in {"done", "failed"}
  /\ run' = "second"
  /\ first' = Outcome
  /\ pc' = "load"
  /\ error' = ""
  /\ flights_df' = <<>>
  /\ flights_weather_df' = <<>>
  /\ routes_stats' = <<>>
  /\ airlines_stats' = <<>>
  /\ wind_data' = <<>>
  /\ wind_summary' = <<>>
  /\ stdout' = <<>>
  /\ log' = <<>>
  /\ UNCHANGED <<inputs, files>>

Next ==
  \/ load_data
  \/ preprocess_data
  \/ analyze_routes
  \/ analyze_airlines
  \/ analyze_wind_impact
  \/ create_route_cancellations_plot
  \/ create_airline_delays_plot
  \/ create_wind_impact_plot
  \/ generate_summary_report
  \/ second_run

\* ------------------------------------------------------------- the inputs

FlightRow(o, d, a, t, dd) == [origin |-> o, dest |-> d, airline |-> a, dep_time |-> t, dep_delay |-> dd]

WeatherRow(o, g, dd) == [origin |-> o, wind_gust |-> g, dep_delay |-> dd]

\* rows drawn freely
FreeFlightRows ==
  {FlightRow(k[1], "LAX", k[2], t, dd) :
     k \in {<<"JFK", "AA">>, <<"LGA", "UA">>, <<"JFK", NaNKey>>},
     t \in {NA, Val(1200)}, dd \in {NA, Val(10), Val(30)}}

FreeWeatherRows ==
  {WeatherRow("JFK", g, dd) :
     g \in {NA, Val(9), Val(10), Val(20)}, dd \in {NA, Val(5), Val(15)}}

TablesOf(rows, n) == UNION {[1..k -> rows] : k \in 0..n}

\* the two flights and the three weather rows of the specification's examples
ExampleFlights ==
  <<FlightRow("JFK", "LAX", "AA", Val(1200), Val(10)), FlightRow("JFK", "LAX", "AA", NA, Val(30))>>

ExampleWeather ==
  <<WeatherRow("JFK", Val(9), Val(5)), WeatherRow("JFK", Val(10), Val(15)),
    WeatherRow("LGA", Val(20), Val(25))>>

\* a wide table: one flight per route and airline; all of one kind but for
\* the flights at places p and q
WideKinds ==
  {[dep_time |-> Val(1200), dep_delay |-> Val(10)],
   [dep_time |-> NA, dep_delay |-> Val(30)],
   [dep_time |-> NA, dep_delay |-> NA]}

WideTable(n, d, p, kp, q, kq) ==
  [i \in 1..n |->
     LET k == IF i = p THEN kp ELSE IF i = q THEN kq ELSE d
     IN FlightRow(Origins[((i - 1) \div Len(Dests)) + 1], Dests[((i - 1) % Len(Dests)) + 1],
                  Airlines[i], k.dep_time, k.dep_delay)]

WideTables ==
  {WideTable(n, d, p, kp, q, kq) :
     n \in (MaxKeys - 1)..MaxKeys, d \in WideKinds, p \in 1..MaxKeys, kp \in WideKinds,
     q \in 1..MaxKeys, kq \in WideKinds}

InitRun ==
  /\ numpy_kernel \in NumpyKernels
  /\ files = [p \in OutputPaths |-> IF p = SUMMARY_PATH THEN TextFile(STALE_REPORT) ELSE Absent]
  /\ run = "first"
  /\ first = Nothing
  /\ pc = "load"
  /\ error = ""
  /\ flights_df = <<>>
  /\ flights_weather_df = <<>>
  /\ routes_stats = <<>>
  /\ airlines_stats = <<>>
  /\ wind_data = <<>>
  /\ wind_summary = <<>>
  /\ stdout = <<>>
  /\ log = <<>>

Init ==
  /\ \/ csv_flights \in TablesOf(FreeFlightRows, MaxFlights) /\ csv_weather = ExampleWeather
     \/ csv_flights = ExampleFlights /\ csv_weather \in TablesOf(FreeWeatherRows, MaxWeather)
  /\ InitRun

InitWide ==
  /\ csv_flights \in WideTables
  /\ csv_weather = ExampleWeather
  /\ InitRun

Spec == Init /\ [][Next]_vars

SpecWide == InitWide /\ [][Next]_vars

\* ------------------------------------------------------------------ claims

\* the ranked slices a run holds, each with the table and the column it was
\* cut from
Rankings ==
  (IF routes_stats = <<>> THEN {}
   ELSE {[agg |-> routes_stats[1], top |-> routes_stats[2], by |-> "mean_dep_delay"],
         [agg |-> routes_stats[1], top |-> routes_stats[3], by |-> "total_cancellations"]})
  \cup
  (IF airlines_stats = <<>> THEN {}
   ELSE {[agg |-> airlines_stats[1], top |-> airlines_stats[2], by |-> "mean_dep_delay"],
         [agg |-> airlines_stats[1], top |-> airlines_stats[3], by |-> "total_cancellations"]})

\* the aggregate tables a run holds, each with its grouping column
GroupTables ==
  (IF routes_stats = <<>> THEN {} ELSE {[agg |-> routes_stats[1], col |-> "route"]})
  \cup (IF airlines_stats = <<>> THEN {} ELSE {[agg |-> airlines_stats[1], col |-> "airline"]})

\* the sort value of a row of a ranking
Metric(r, row) ==
  IF r.by = "total_cancellations"
  THEN [nan |-> FALSE, sum |-> row.total_cancellations, cnt |-> 1]
  ELSE row.mean_dep_delay

\* y belongs strictly before x in a descending order with the undefined last
Better(y, x) == ~y.nan /\ (x.nan \/ x.sum * y.cnt < y.sum * x.cnt)

SameMetric(x, y) == (x.nan /\ y.nan) \/ (~x.nan /\ ~y.nan /\ x.sum * y.cnt = y.sum * x.cnt)

PlaceIn(agg, key) == CHOOSE g \in 1..Len(agg) : agg[g].key = key

\* the slice is in descending order, the undefined values last
Descending(r) ==
  \A a, b \in 1..Len(r.top) : a < b => ~Better(Metric(r, r.top[b]), Metric(r, r.top[a]))

\* rows of equal sort value stand in the slice as they stand in the table
StableOnTies(r) ==
  \A a, b \in 1..Len(r.top) :
    (a < b /\ SameMetric(Metric(r, r.top[a]), Metric(r, r.top[b])))
      => PlaceIn(r.agg, r.top[a].key) < PlaceIn(r.agg, r.top[b].key)

\* C1 as the specification states it: each ranked slice has at most 9 rows, is
\* sorted descending by its metric, and is stable on ties (groups of equal
\* metric keep the relative order they have in the aggregate table).
C1_RankedStable ==
  \A r \in Rankings : Len(r.top) <= 9 /\ Descending(r) /\ StableOnTies(r)

\* C1, amended: each ranked slice holds min(9, number of groups) distinct rows
\* of the aggregate table, sorted descending by its metric with the undefined
\* means last, and no row left out ranks strictly before a row kept; the
\* order of groups of equal metric is not fixed.
C1_Ranked ==
  \A r \in Rankings :
    /\ Len(r.top) = (IF Len(r.agg) < 9 THEN Len(r.agg) ELSE 9)
    /\ \A a \in 1..Len(r.top) : \E g \in 1..Len(r.agg) : r.agg[g] = r.top[a]
    /\ \A a, b \in 1..Len(r.top) : a < b => r.top[a].key # r.top[b].key
    /\ Descending(r)
    /\ \A g \in 1..Len(r.agg) :
         (\A a \in 1..Len(r.top) : r.top[a].key # r.agg[g].key)
           => \A a \in 1..Len(r.top) : ~Better(Metric(r, r.agg[g]), Metric(r, r.top[a]))

\* a table of more than 9 groups, cut to 9, with two rows of equal metric that
\* stand in the slice against their order in the table
C1_Witness ==
  \E r \in Rankings :
    /\ Len(r.agg) > 9 /\ Len(r.top) = 9
    /\ \E a, b \in 1..Len(r.top) :
         /\ a < b /\ SameMetric(Metric(r, r.top[a]), Metric(r, r.top[b]))
         /\ PlaceIn(r.agg, r.top[a].key) > PlaceIn(r.agg, r.top[b].key)

\* the rows of flights_df in the group of a key
RowsOf(t, key) == {i \in 1..Len(flights_df) : flights_df[i][t.col] = key}

\* C2: for every key of an aggregate table, total_cancellations is the number
\* of rows of the group whose departure time is absent, a non-negative
\* integer; every distinct (present) key of the input is the key of exactly
\* one aggregate row, and every aggregate row is the group of some input row.
C2_Cancellations ==
  \A t \in GroupTables :
    /\ \A g \in 1..Len(t.agg) :
         /\ t.agg[g].total_cancellations \in Nat
         /\ t.agg[g].total_cancellations
              = Cardinality({i \in RowsOf(t, t.agg[g].key) : flights_df[i].dep_time.na})
         /\ RowsOf(t, t.agg[g].key) # {}
    /\ \A i \in 1..Len(flights_df) :
         flights_df[i][t.col] # NaNKey
           => Cardinality({g \in 1..Len(t.agg) : t.agg[g].key = flights_df[i][t.col]}) = 1

\* two groups, one with a cancelled flight and one without
C2_Witness ==
  \E t \in GroupTables :
    /\ Len(t.agg) = 2
    /\ \E g, h \in 1..2 : t.agg[g].total_cancellations = 1 /\ t.agg[h].total_cancellations = 0

\* the sum of dep_delay over the rows I of flights_df
RECURSIVE DelaySum(_)
DelaySum(I) ==
  IF I = {} THEN 0
  ELSE LET i == CHOOSE j \in I : TRUE
       IN flights_df[i].dep_delay.v + DelaySum(I \ {i})

\* C3: for every group, mean_dep_delay is the sum of the present dep_delay
\* values of the group over their number (absent values neither counted nor
\* taken as zero); a group with no present value has an undefined mean and
\* still has its row; the two example flights of route JFK-LAX give mean 20.0
\* and 1 cancellation.
C3_Mean ==
  /\ \A t \in GroupTables :
       /\ \A g \in 1..Len(t.agg) :
            LET P == {i \in RowsOf(t, t.agg[g].key) : ~flights_df[i].dep_delay.na}
            IN IF P = {} THEN t.agg[g].mean_dep_delay = [nan |-> TRUE, sum |-> 0, cnt |-> 0]
               ELSE t.agg[g].mean_dep_delay
                      = [nan |-> FALSE, sum |-> DelaySum(P), cnt |-> Cardinality(P)]
       /\ \A i \in 1..Len(flights_df) :
            flights_df[i][t.col] # NaNKey
              => \E g \in 1..Len(t.agg) : t.agg[g].key = flights_df[i][t.col]
  /\ (csv_flights = ExampleFlights /\ routes_stats # <<>>)
       => /\ routes_stats[1] = <<[key |-> "JFK-LAX",
                                  mean_dep_delay |-> [nan |-> FALSE, sum |-> 40, cnt |-> 2],
                                  total_cancellations |-> 1]>>
          /\ Fmt1(routes_stats[1][1].mean_dep_delay) = "20.0"

\* a group whose delays are all absent, kept with an undefined mean beside a
\* group with a defined one
C3_Witness ==
  \E t \in GroupTables : \E g, h \in 1..Len(t.agg) :
    t.agg[g].mean_dep_delay.nan /\ ~t.agg[h].mean_dep_delay.nan

\* the run has entered the stage: its banner is in the log
Entered(stage) == \E k \in 1..Len(log) : log[k] = [level |-> "INFO", message |-> StageBanner[stage]]

\* the row of the wind summary with the label, as a set
SummaryRows(label) == {g \in 1..Len(wind_summary) : wind_summary[g].key = label}

\* C4: wind bucketing is a total partition of the rows with a present gust:
\* each carries exactly one of the two labels and falls in exactly one group
\* of the summary; a gust of exactly 10 (and any gust of 10 or more) is
\* labelled ">= 10mph", every gust below 10 "< 10mph".
C4_WindPartition ==
  Entered("wind") =>
    \A i \in 1..Len(flights_weather_df) :
      LET row == flights_weather_df[i]
      IN ~row.wind_gust.na =>
           /\ Cardinality({w \in {"< 10mph", ">= 10mph"} : row.wind_group = w}) = 1
           /\ Cardinality(SummaryRows(row.wind_group)) = 1
           /\ row.wind_gust.v = 10 => row.wind_group = ">= 10mph"
           /\ row.wind_gust.v >= 10 => row.wind_group = ">= 10mph"
           /\ row.wind_gust.v < 10 => row.wind_group = "< 10mph"

\* a weather table with a gust of exactly 10 labelled ">= 10mph" beside a
\* gust below 10
C4_Witness ==
  /\ Entered("wind")
  /\ \E i, j \in 1..Len(flights_weather_df) :
       /\ flights_weather_df[i].wind_gust = [na |-> FALSE, v |-> 10]
       /\ flights_weather_df[i].wind_group = ">= 10mph"
       /\ ~flights_weather_df[j].wind_gust.na
       /\ flights_weather_df[j].wind_gust.v < 10

\* the next stage of main() after a stage
NextOf(stage) ==
  IF stage = "report" THEN "done"
  ELSE Stages[(CHOOSE k \in 1..Len(Stages) : Stages[k] = stage) + 1]

\* the output file a stage writes, if any
WritesTo(stage) ==
  CASE stage = "plot_route_cancellations" -> {ROUTE_PLOT_PATH}
    [] stage = "plot_airline_delays" -> {AIRLINE_PLOT_PATH}
    [] stage = "plot_wind_impact" -> {WIND_PLOT_PATH}
    [] stage = "report" -> {SUMMARY_PATH}
    [] OTHER -> {}

\* the stage banners of a log, in order
Banners(l) == SelectSeq(l, LAMBDA e : \E k \in 1..Len(Stages) : e = [level |-> "INFO", message |-> StageBanner[Stages[k]]])

\* C5: main runs load, preprocess, route analysis, airline analysis, wind
\* analysis, the three plots and the report strictly in this order, one stage
\* at a time; a stage that fails is logged as an error and re-raised, no
\* later stage runs, and the failing step leaves every output file as it was
\* (files written by the stages before it remain).
C5_Pipeline ==
  [][/\ (run' = run /\ pc \notin {"done", "failed"})
          => /\ pc' \in {NextOf(pc), "failed"}
             /\ Banners(log') = Banners(log) \o <<[level |-> "INFO", message |-> StageBanner[pc]]>>
             /\ \A p \in OutputPaths \ WritesTo(pc) : files'[p] = files[p]
             /\ pc' = "failed"
                  => /\ error' # ""
                     /\ log'[Len(log')].level = "ERROR"
                     /\ files' = files
             /\ pc' # "failed" => error' = ""
     /\ pc \in {"done", "failed"} => (run = "first" /\ run' = "second" /\ files' = files)
    ]_vars

\* a first run that failed in the report stage: the three plots are on disk,
\* the report file still holds what it held before the run
C5_Witness ==
  /\ run = "first" /\ pc = "failed" /\ error = "KeyError"
  /\ files[ROUTE_PLOT_PATH].kind = "png"
  /\ files[AIRLINE_PLOT_PATH].kind = "png"
  /\ files[WIND_PLOT_PATH].kind = "png"
  /\ files[SUMMARY_PATH] = [kind |-> "text", text |-> STALE_REPORT]

\* C6: whenever generate_summary_report is entered with a wind summary that
\* lacks ">= 10mph" or "< 10mph", it raises a KeyError naming the first label
\* it misses, which main logs and re-raises; nothing of the report is printed
\* (the output ends with the seven prints of the wind analysis) or written.
C6_MissingGroup ==
  (Entered("report") /\ (SummaryRows(">= 10mph") = {} \/ SummaryRows("< 10mph") = {}))
    => /\ pc = "failed"
       /\ error = "KeyError"
       /\ log[Len(log)] = [level |-> "ERROR",
                           message |-> "Analysis failed: "
                             \o (IF SummaryRows(">= 10mph") = {} THEN "'>= 10mph'" ELSE "'< 10mph'")]
       /\ Len(stdout) = 7
       /\ files[SUMMARY_PATH] = [kind |-> "text", text |-> STALE_REPORT]

\* every weather row fell into a single wind group, and the report failed
C6_Witness ==
  /\ pc = "failed" /\ error = "KeyError"
  /\ Len(flights_weather_df) >= 2
  /\ Len(wind_summary) = 1

\* C7 as the specification states it: after a successful report the file
\* holds exactly the text that was printed.
C7_FileEqualsPrinted ==
  pc = "done" => files[SUMMARY_PATH] = [kind |-> "text", text |-> stdout[Len(stdout)].text]

\* C7, amended: after a successful report the file holds exactly the report
\* text, with nothing left of its prior content, and what was printed is that
\* text after one newline and before the newline print ends with.
C7_FileIsReport ==
  pc = "done" =>
    /\ files[SUMMARY_PATH].kind = "text"
    /\ stdout[Len(stdout)] = [text |-> "\n" \o files[SUMMARY_PATH].text \o "\n"]

\* a first run that succeeded: the stale report on disk was replaced
C7_Witness ==
  /\ run = "first" /\ pc = "done"
  /\ files[SUMMARY_PATH].kind = "text"
  /\ files[SUMMARY_PATH].text # STALE_REPORT

C9_NaNLast ==
  \A r \in {q \in Rankings : q.by = "mean_dep_delay"} :
    /\ \A a, b \in 1..Len(r.top) :
         (a < b /\ r.top[a].mean_dep_delay.nan) => r.top[b].mean_dep_delay.nan
    /\ (\E g \in 1..Len(r.agg) : ~r.agg[g].mean_dep_delay.nan)
         => /\ ~r.top[1].mean_dep_delay.nan
            /\ \A g \in 1..Len(r.agg) :
                 ~r.agg[g].mean_dep_delay.nan
                   => r.agg[g].mean_dep_delay.sum * r.top[1].mean_dep_delay.cnt
                        <= r.top[1].mean_dep_delay.sum * r.agg[g].mean_dep_delay.cnt
    /\ (\A g \in 1..Len(r.agg) : r.agg[g].mean_dep_delay.nan) => r.top[1].mean_dep_delay.nan

\* the first group of the table has an undefined mean, another a defined one,
\* and the top-1 row is a defined one
C9_Witness ==
  \E r \in {q \in Rankings : q.by = "mean_dep_delay"} :
    /\ r.agg[1].mean_dep_delay.nan
    /\ \E g \in 1..Len(r.agg) : ~r.agg[g].mean_dep_delay.nan
    /\ ~r.top[1].mean_dep_delay.nan
    /\ r.top[Len(r.top)].mean_dep_delay.nan

\* the rows of the weather table that the code buckets as low wind
LowRows == {i \in 1..Len(flights_weather_df) :
              flights_weather_df[i].wind_gust.na \/ flights_weather_df[i].wind_gust.v < 10}

RECURSIVE WeatherDelaySum(_)
WeatherDelaySum(I) ==
  IF I = {} THEN 0
  ELSE LET i == CHOOSE j \in I : TRUE
       IN flights_weather_df[i].dep_delay.v + WeatherDelaySum(I \ {i})

\* C10: a row whose gust is absent is labelled "< 10mph", so every row of the
\* weather table carries one of the two labels, and the "< 10mph" row of the
\* summary counts and averages the present delays of the rows with an absent
\* gust together with those of the rows with a gust below 10.
C10_AbsentGustLow ==
  Entered("wind") =>
    /\ \A i \in 1..Len(flights_weather_df) :
         /\ flights_weather_df[i].wind_group \in {"< 10mph", ">= 10mph"}
         /\ flights_weather_df[i].wind_gust.na => flights_weather_df[i].wind_group = "< 10mph"
    /\ LowRows # {} =>
         LET P == {i \in LowRows : ~flights_weather_df[i].dep_delay.na}
         IN \E g \in 1..Len(wind_summary) :
              /\ wind_summary[g].key = "< 10mph"
              /\ wind_summary[g].count = Cardinality(P)
              /\ wind_summary[g].mean
                   = (IF P = {} THEN [nan |-> TRUE, sum |-> 0, cnt |-> 0]
                      ELSE [nan |-> FALSE, sum |-> WeatherDelaySum(P), cnt |-> Cardinality(P)])

\* the only low-wind rows are rows without a gust value, and their delays
\* are what the "< 10mph" row of the summary counts
C10_Witness ==
  /\ Entered("wind")
  /\ \E i \in 1..Len(flights_weather_df) :
       flights_weather_df[i].wind_gust.na /\ ~flights_weather_df[i].dep_delay.na
  /\ \A i \in 1..Len(flights_weather_df) :
       ~flights_weather_df[i].wind_gust.na => flights_weather_df[i].wind_gust.v >= 10
  /\ \E g \in 1..Len(wind_summary) : wind_summary[g].key = "< 10mph" /\ wind_summary[g].count >= 1

====
